---- MODULE Spec2Model ----
(***************************************************************************)
(* Batch provisioning of Athena/Glue tables by an AWS Lambda function.     *)
(* Two deployments of the same orchestration are modelled:                 *)
(*   "glue"   - athena-table-creator.py            (Glue CreateTable API)  *)
(*   "athena" - athena-table-creator-via-athena.py (Athena DDL statement)  *)
(* A table spec is a Python dict; it is modelled as a function whose       *)
(* DOMAIN is the set of keys the dict holds, so config['k'] on a missing   *)
(* key is the KeyError of the source. Strings that are scanned character   *)
(* by character (query templates, bucket names) are sequences of           *)
(* one-character strings.                                                  *)
(***************************************************************************)
EXTENDS Integers, Sequences, FiniteSets, TLC

\* ------------------------------------------------------------------ bounds
\* longest table list of table_configs.json
MaxSpecs == 3
\* longest table list in the rerun specification
MaxRerunSpecs == 2
\* number of invocations of the handler in the rerun specification
MaxRuns == 2
\* longest query template in the placeholder specification
MaxQueryLen == 5

\* ------------------------------------------------------- values of the model
TableNames == {"t1", "t2"}

\* the identifier DATA_BUCKET, written with the one letter "D"
PlaceholderKey == <<"D">>

\* first characters of a Template identifier ([_a-z], case-insensitive)
IdStart == {"D", "x"}

\* characters of a Template identifier ([_a-z0-9])
IdChars == IdStart \cup {"1"}

\* the characters query templates are made of
Alphabet == {"$", "{", "}"} \cup IdChars

\* an environment variable that is not set
Absent == <<"<absent>">>

\* the value of an environment variable that is set and not empty
BucketValue == <<"b">>

\* a bucket name that itself holds the delimiter
DollarValue == <<"$", "D">>

Variants == {"glue", "athena"}

\* ---------------------------------------------------------------- helpers
Has(dict, key) == key \in DOMAIN dict

Restrict(f, keys) == [k \in keys |-> f[k]]

Range(s) == {s[k] : k \in 1..Len(s)}

SeqsUpTo(S, n) == UNION {[1..k -> S] : k \in 0..n}

VARIABLES
  variant,        \* which of the two source files is deployed
  env,            \* os.environ: variable name -> value, or Absent
  configFile,     \* table_configs.json of the deployment package
  catalog,        \* table names the Glue catalog holds
  engine,         \* Athena: state of each accepted query execution
  module,         \* module globals DATABASE, DATA_BUCKET, RESULTS_BUCKET
  pc,             \* "cold", "import_error", "ready", "loop", "done"
  table_configs,  \* lambda_handler's local: the list read from the file
  idx,            \* position of the for loop of create_tables (1-based)
  success_count,  \* create_tables' local
  failed_tables,  \* create_tables' local
  calls,          \* backend calls made by the current invocation
  response,       \* what the invocation returned
  run,            \* number of the current invocation
  history         \* responses and calls of the earlier invocations

vars == <<variant, env, configFile, catalog, engine, module, pc, table_configs,
          idx, success_count, failed_tables, calls, response, run, history>>

\* ------------------------------------------------------------ configuration
\* required_vars of validate_env_vars; the same names are read at module level
required_vars(v) ==
  IF v = "glue" THEN <<"DATABASE_NAME", "DATA_BUCKET">>
  ELSE <<"DATABASE_NAME", "DATA_BUCKET", "RESULTS_BUCKET">>

\* missing_vars = [var for var in required_vars if not os.environ.get(var)]
missing_vars(v, environ) ==
  SelectSeq(required_vars(v), LAMBDA var : environ[var] = Absent \/ environ[var] = <<>>)

\* os.environ['X'] at module level raises KeyError when X is not set
ImportRaises(v, environ) ==
  \E var \in Range(required_vars(v)) : environ[var] = Absent

NoResponse == [statusCode |-> 0, error |-> "", details |-> <<>>]

\* the runtime's answer when the module cannot be imported: the handler never ran
InitError == [statusCode |-> -1, error |-> "Runtime.ImportModuleError", details |-> <<>>]

Fatal(msg) == [statusCode |-> 500, error |-> msg, details |-> <<>>]

Report(sc, ft, configs) ==
  [success_count |-> sc, failed_tables |-> ft, total_tables |-> Len(configs)]

Ok(result) == [statusCode |-> 200, error |-> "", details |-> <<result>>]

\* ------------------------------------------------- string.Template (stdlib)
RECURSIVE IdEnd(_, _)
\* the index just past the longest run of identifier characters starting at p
IdEnd(s, p) == IF p <= Len(s) /\ s[p] \in IdChars THEN IdEnd(s, p + 1) ELSE p

\* a mutant of Convert: an unmapped identifier is replaced by the empty string
ConvertDefaultEmpty(mapping, named, group) ==
  IF named \in DOMAIN mapping THEN mapping[named] ELSE <<>>

\* convert() of Template.safe_substitute for a named or braced match:
\* str(mapping[named]), and on KeyError the matched text itself
Convert(mapping, named, group) ==
  IF named \in DOMAIN mapping THEN mapping[named] ELSE group

RECURSIVE Sub(_, _, _)
\* pattern.sub(convert, template) from position p: the alternatives of
\* Template.pattern after the delimiter, in their order: escaped, named,
\* braced, invalid
Sub(template, p, mapping) ==
  IF p > Len(template) THEN <<>>
  ELSE IF template[p] # "$" THEN <<template[p]>> \o Sub(template, p + 1, mapping)
  ELSE IF p + 1 <= Len(template) /\ template[p + 1] = "$"
    THEN <<"$">> \o Sub(template, p + 2, mapping)
  ELSE IF p + 1 <= Len(template) /\ template[p + 1] \in IdStart
    THEN LET e == IdEnd(template, p + 1)
         IN  Convert(mapping, SubSeq(template, p + 1, e - 1), SubSeq(template, p, e - 1))
               \o Sub(template, e, mapping)
  ELSE IF /\ p + 2 <= Len(template)
          /\ template[p + 1] = "{"
          /\ template[p + 2] \in IdStart
          /\ IdEnd(template, p + 2) <= Len(template)
          /\ template[IdEnd(template, p + 2)] = "}"
    THEN LET e == IdEnd(template, p + 2)
         IN  Convert(mapping, SubSeq(template, p + 2, e - 1), SubSeq(template, p, e))
               \o Sub(template, e + 1, mapping)
  ELSE <<"$">> \o Sub(template, p + 1, mapping)

\* Template(config['query']).safe_substitute(DATA_BUCKET=DATA_BUCKET)
safe_substitute(template, data_bucket) ==
  Sub(template, 1, [key \in {PlaceholderKey} |-> data_bucket])

\* ------------------------------------------------------------ Glue variant
\* parse_column_definitions: col['name'] and col['type'] of every column
parse_column_definitions(columns_config) ==
  IF \A k \in 1..Len(columns_config) :
       Has(columns_config[k], "name") /\ Has(columns_config[k], "type")
  THEN [raised |-> FALSE,
        value |-> [k \in 1..Len(columns_config) |->
                     [Name |-> columns_config[k].name, Type |-> columns_config[k].type]]]
  ELSE [raised |-> TRUE, value |-> <<>>]

NoTableInput == [raised |-> TRUE, value |-> <<>>]

\* the dict literal table_input of create_table: a missing key raises KeyError
\* before the catalog is called
table_input(table_config) ==
  IF ~Has(table_config, "name") THEN NoTableInput
  ELSE IF ~Has(table_config, "columns") THEN NoTableInput
  ELSE IF parse_column_definitions(table_config.columns).raised THEN NoTableInput
  ELSE IF ~Has(table_config, "location") THEN NoTableInput
  ELSE [raised |-> FALSE,
        value |-> <<[Name |-> table_config.name,
                     DatabaseName |-> module.DATABASE,
                     TableType |-> "EXTERNAL_TABLE",
                     Columns |-> parse_column_definitions(table_config.columns).value,
                     Location |-> <<"s3://", module.DATA_BUCKET, "/", table_config.location>>]>>]

\* answers of glue_client.create_table: the table was created, a ClientError
\* with a code, a ClientError without a code, or another exception
ClientErrorCodes == {"AlreadyExistsException", "ValidationException"}

CatalogErrors == {"ValidationException", "NoCode", "Exception"}

\* what the catalog may answer to a create of table_input ti; a strict catalog
\* answers a create of an existing name with AlreadyExistsException, always
CatalogAnswers(strict, ti) ==
  IF ti.raised THEN {"NotCalled"}
  ELSE IF ti.value[1].Name \in catalog
    THEN IF strict THEN {"AlreadyExistsException"}
         ELSE {"AlreadyExistsException"} \cup CatalogErrors
  ELSE {"Created"} \cup CatalogErrors

\* a mutant of create_table: the error code is not looked at, every
\* ClientError is a failure
create_table_any_client_error_fails(table_config, resp) ==
  IF table_input(table_config).raised
  THEN IF Has(table_config, "name") THEN "False" ELSE "KeyError"
  ELSE IF resp = "Created" THEN "True" ELSE "False"

\* a mutant of create_table: the test is "error_code is not another code"
create_table_no_code_succeeds(table_config, resp) ==
  IF table_input(table_config).raised
  THEN IF Has(table_config, "name") THEN "False" ELSE "KeyError"
  ELSE IF resp \in {"Created", "AlreadyExistsException", "NoCode"} THEN "True"
  ELSE "False"

\* create_table: "True", "False", or the KeyError that leaves the function
\* when the except handler formats table_config['name'] and there is none
create_table(table_config, resp) ==
  IF table_input(table_config).raised
  THEN IF Has(table_config, "name") THEN "False" ELSE "KeyError"
  ELSE IF resp = "Created" THEN "True"
  ELSE IF resp \in ClientErrorCodes
    THEN IF resp = "AlreadyExistsException" THEN "True" ELSE "False"
  ELSE "False"

\* the body of the for loop of create_tables (Glue): "success", "failed", or
\* "abort" when config['name'] raises inside the except handler
glue_body(config, resp) ==
  IF create_table(config, resp) = "True" THEN "success"
  ELSE IF Has(config, "name") THEN "failed"
  ELSE "abort"

\* ---------------------------------------------------------- Athena variant
\* a mutant of execute_query: the state of the query execution is polled
execute_query_polls(dispatch, state) == dispatch = "Accepted" /\ state # "FAILED"

\* execute_query: True when start_query_execution returned, False when it
\* raised; the state of the query execution in the engine is not read
execute_query(dispatch, state) == dispatch = "Accepted"

\* the body of the for loop of create_tables (Athena); "success_abort" is the
\* increment of success_count followed by the KeyError of config['name']
athena_body(config, dispatch, state) ==
  IF ~Has(config, "query") THEN IF Has(config, "name") THEN "failed" ELSE "abort"
  ELSE IF execute_query(dispatch, state)
    THEN IF Has(config, "name") THEN "success" ELSE "success_abort"
  ELSE IF Has(config, "name") THEN "failed"
  ELSE "abort"

\* the request start_query_execution is called with
query_request(config) ==
  [QueryString |-> safe_substitute(config.query, module.DATA_BUCKET),
   Database |-> module.DATABASE,
   OutputLocation |-> <<"s3://", module.RESULTS_BUCKET, "/athena-query-results/">>]

\* ------------------------------------------------------------- create_tables
Aborts == {"abort", "success_abort"}

\* a mutant of Tally: a failed spec is appended and counted as a success too
TallyCountsAll(sc, ft, outcome, config) ==
  IF outcome \in {"success", "success_abort"}
  THEN [success_count |-> sc + 1, failed_tables |-> ft]
  ELSE IF outcome = "failed"
    THEN [success_count |-> sc + 1, failed_tables |-> Append(ft, config.name)]
  ELSE [success_count |-> sc, failed_tables |-> ft]

\* a mutant of Tally: the failed name is inserted at the head of the list
TallyPrepends(sc, ft, outcome, config) ==
  IF outcome \in {"success", "success_abort"}
  THEN [success_count |-> sc + 1, failed_tables |-> ft]
  ELSE IF outcome = "failed"
    THEN [success_count |-> sc, failed_tables |-> <<config.name>> \o ft]
  ELSE [success_count |-> sc, failed_tables |-> ft]

\* success_count += 1 / failed_tables.append(config['name'])
Tally(sc, ft, outcome, config) ==
  IF outcome \in {"success", "success_abort"}
  THEN [success_count |-> sc + 1, failed_tables |-> ft]
  ELSE IF outcome = "failed"
    THEN [success_count |-> sc, failed_tables |-> Append(ft, config.name)]
  ELSE [success_count |-> sc, failed_tables |-> ft]

\* a mutant of Advance: the loop is left at the first failed spec
AdvanceBreaks(i, outcome) ==
  IF outcome = "failed" THEN Len(table_configs) + 1 ELSE i + 1

\* the for loop goes on to the next spec, also after `continue`
Advance(i, outcome) == i + 1

\* a mutant of BackendCall: a call that failed is made a second time
BackendCallRetries(log, request) ==
  IF request.resp \in {"Created", "AlreadyExistsException", "Accepted"}
  THEN Append(log, request)
  ELSE Append(Append(log, request), request)

\* the one call of glue_client.create_table / athena_client.start_query_execution
BackendCall(log, request) == Append(log, request)

\* the end of one pass of the loop: the tally, and either the next spec or,
\* when the exception leaves create_tables, the except clause of lambda_handler
EndOfPass(config, outcome) ==
  LET t == Tally(success_count, failed_tables, outcome, config) IN
  /\ success_count' = t.success_count
  /\ failed_tables' = t.failed_tables
  /\ IF outcome \in Aborts
     THEN /\ pc' = "done"
          /\ response' = Fatal("'name'")
          /\ idx' = idx
     ELSE /\ pc' = "loop"
          /\ response' = response
          /\ idx' = Advance(idx, outcome)
  /\ UNCHANGED <<variant, env, configFile, module, table_configs, run, history>>

Classified == success_count + Len(failed_tables)

\* one pass of the loop of create_tables of athena-table-creator.py
GluePass(strict) ==
  /\ pc = "loop"
  /\ variant = "glue"
  /\ idx <= Len(table_configs)
  /\ LET config == table_configs[idx]
         ti == table_input(config)
     IN  \E resp \in CatalogAnswers(strict, ti) :
           /\ EndOfPass(config, glue_body(config, resp))
           /\ calls' = IF ti.raised THEN calls
                       ELSE BackendCall(calls, [spec |-> idx, request |-> ti.value[1],
                                                resp |-> resp, classified |-> Classified])
           /\ catalog' = IF resp = "Created" THEN catalog \cup {config.name} ELSE catalog
           /\ UNCHANGED engine

\* against a catalog that may fail a create for any reason
GlueIteration == GluePass(FALSE)

\* against a catalog that answers a create of an existing name with
\* AlreadyExistsException
GlueIterationStrict == GluePass(TRUE)

\* one pass of the loop of create_tables of athena-table-creator-via-athena.py
AthenaIteration ==
  /\ pc = "loop"
  /\ variant = "athena"
  /\ idx <= Len(table_configs)
  /\ LET config == table_configs[idx] IN
     \E dispatch \in (IF Has(config, "query") THEN {"Accepted", "Raised"} ELSE {"NotCalled"}) :
       \E state \in (IF dispatch = "Accepted" THEN {"RUNNING", "FAILED"} ELSE {"NONE"}) :
         /\ EndOfPass(config, athena_body(config, dispatch, state))
         /\ calls' = IF dispatch = "NotCalled" THEN calls
                     ELSE BackendCall(calls, [spec |-> idx, request |-> query_request(config),
                                              resp |-> dispatch, classified |-> Classified])
         /\ engine' = IF dispatch = "Accepted" THEN Append(engine, state) ELSE engine
         /\ UNCHANGED catalog

\* the query engine finishes a query it accepted (not a step of the program)
EngineProgress ==
  /\ \E k \in 1..Len(engine) : \E state \in {"SUCCEEDED", "FAILED"} :
       /\ engine[k] = "RUNNING"
       /\ engine' = [engine EXCEPT ![k] = state]
  /\ UNCHANGED <<variant, env, configFile, catalog, module, pc, table_configs, idx,
                 success_count, failed_tables, calls, response, run, history>>

\* --------------------------------------------------------------- entry point
NoModule == [DATABASE |-> Absent, DATA_BUCKET |-> Absent, RESULTS_BUCKET |-> Absent]

\* the module-level statements run when the function is loaded (cold start)
ImportModule ==
  /\ pc = "cold"
  /\ IF ImportRaises(variant, env)
     THEN /\ pc' = "import_error"
          /\ response' = InitError
          /\ module' = module
     ELSE /\ pc' = "ready"
          /\ response' = response
          /\ module' = [DATABASE |-> env["DATABASE_NAME"],
                        DATA_BUCKET |-> env["DATA_BUCKET"],
                        RESULTS_BUCKET |-> IF variant = "athena" THEN env["RESULTS_BUCKET"]
                                           ELSE Absent]
  /\ UNCHANGED <<variant, env, configFile, catalog, engine, table_configs, idx,
                 success_count, failed_tables, calls, run, history>>

\* lambda_handler up to the loop: validate_env_vars, read_table_configs, and
\* the first two statements of create_tables
HandlerStart ==
  /\ pc = "ready"
  /\ IF missing_vars(variant, env) # <<>>
     THEN /\ pc' = "done"
          /\ response' = Fatal("Missing required environment variables")
          /\ table_configs' = table_configs
     ELSE IF configFile.kind # "ok"
     THEN /\ pc' = "done"
          /\ response' = Fatal(configFile.kind)
          /\ table_configs' = table_configs
     ELSE /\ pc' = "loop"
          /\ response' = response
          /\ table_configs' = configFile.tables
  /\ idx' = 1
  /\ success_count' = 0
  /\ failed_tables' = <<>>
  /\ UNCHANGED <<variant, env, configFile, catalog, engine, module, calls, run, history>>

\* the loop is over: create_tables returns the report, lambda_handler wraps it
HandlerReturn ==
  /\ pc = "loop"
  /\ idx > Len(table_configs)
  /\ pc' = "done"
  /\ response' = Ok(Report(success_count, failed_tables, table_configs))
  /\ UNCHANGED <<variant, env, configFile, catalog, engine, module, table_configs, idx,
                 success_count, failed_tables, calls, run, history>>

\* the loaded function is invoked again (warm start): the module globals and
\* the catalog stay, the locals of the handler are new
Reinvoke ==
  /\ pc = "done"
  /\ run < MaxRuns
  /\ run' = run + 1
  /\ history' = Append(history, [response |-> response, calls |-> calls])
  /\ pc' = "ready"
  /\ response' = NoResponse
  /\ calls' = <<>>
  /\ table_configs' = <<>>
  /\ idx' = 1
  /\ success_count' = 0
  /\ failed_tables' = <<>>
  /\ UNCHANGED <<variant, env, configFile, catalog, engine, module>>

\* ------------------------------------------------------------ initial states
Column == [name |-> "id", type |-> "int"]

GlueSpec(n, cols) == [name |-> n, columns |-> cols, location |-> "data/"]

\* definition-based specs: well formed, or with one key missing, or with a
\* column that has no type
GlueSpecs ==
  UNION {{GlueSpec(n, <<Column>>),
          Restrict(GlueSpec(n, <<Column>>), {"name", "location"}),
          Restrict(GlueSpec(n, <<Column>>), {"name", "columns"}),
          Restrict(GlueSpec(n, <<Column>>), {"columns", "location"}),
          GlueSpec(n, <<Column, Restrict(Column, {"name"})>>)} : n \in TableNames}

\* the query of the specs of the main specification: CREATE ... '${D}x'
MainQuery == <<"$", "{", "D", "}", "x">>

AthenaSpec(n, q) == [name |-> n, query |-> q]

\* query-based specs: well formed, or with one key missing
AthenaSpecs ==
  UNION {{AthenaSpec(n, MainQuery),
          Restrict(AthenaSpec(n, MainQuery), {"name"}),
          Restrict(AthenaSpec(n, MainQuery), {"query"})} : n \in TableNames}

\* table_configs.json: unreadable, without the key "tables", or a list
Files(specs, n) ==
  {[kind |-> "unreadable", tables |-> <<>>], [kind |-> "'tables'", tables |-> <<>>]}
    \cup {[kind |-> "ok", tables |-> t] : t \in SeqsUpTo(specs, n)}

EnvValues == {Absent, <<>>, BucketValue}

InitRest ==
  /\ engine = <<>>
  /\ module = NoModule
  /\ pc = "cold"
  /\ table_configs = <<>>
  /\ idx = 1
  /\ success_count = 0
  /\ failed_tables = <<>>
  /\ calls = <<>>
  /\ response = NoResponse
  /\ run = 1
  /\ history = <<>>

Init ==
  /\ variant \in Variants
  /\ env \in [Range(required_vars(variant)) -> EnvValues]
  /\ configFile \in Files(IF variant = "glue" THEN GlueSpecs ELSE AthenaSpecs, MaxSpecs)
  /\ catalog \in (IF variant = "glue" THEN {{}, {"t1"}} ELSE {{}})
  /\ InitRest

Next ==
  \/ ImportModule
  \/ HandlerStart
  \/ GlueIteration
  \/ AthenaIteration
  \/ EngineProgress
  \/ HandlerReturn

Spec == Init /\ [][Next]_vars

\* ------------------------------------------------- the other specifications
\* a second and later invocation against a strict catalog (Glue variant)
InitRerun ==
  /\ variant = "glue"
  /\ env = [var \in Range(required_vars("glue")) |-> BucketValue]
  /\ configFile \in Files(GlueSpecs, MaxRerunSpecs)
  /\ catalog \in {{}, {"t1"}}
  /\ InitRest

NextRerun ==
  \/ ImportModule
  \/ HandlerStart
  \/ GlueIterationStrict
  \/ HandlerReturn
  \/ Reinvoke

SpecRerun == InitRerun /\ [][NextRerun]_vars

\* one query-based spec with any query template (Athena variant)
InitResolve ==
  /\ variant = "athena"
  /\ \E bucket \in {BucketValue, DollarValue} :
       env = [var \in Range(required_vars("athena")) |->
                IF var = "DATA_BUCKET" THEN bucket ELSE BucketValue]
  /\ \E q \in SeqsUpTo(Alphabet, MaxQueryLen) :
       configFile = [kind |-> "ok", tables |-> <<AthenaSpec("t1", q)>>]
  /\ catalog = {}
  /\ InitRest

NextResolve ==
  \/ ImportModule
  \/ HandlerStart
  \/ AthenaIteration
  \/ EngineProgress
  \/ HandlerReturn

SpecResolve == InitResolve /\ [][NextResolve]_vars

\* ------------------------------------------------ vocabulary of the claims
\* the batch started: the configuration was valid and the list was read
Started == pc \in {"loop", "done"} /\ missing_vars(variant, env) = <<>> /\ configFile.kind = "ok"

\* the specs the loop has gone through, while it runs and once it has returned
Processed == IF pc = "loop" \/ response.statusCode = 200 THEN 1..(idx - 1) ELSE {}

AllNamed(configs) == \A j \in 1..Len(configs) : Has(configs[j], "name")

\* a spec that holds every field its backend needs (the name apart)
WellFormed(config) ==
  IF variant = "glue"
  THEN /\ Has(config, "columns")
       /\ Has(config, "location")
       /\ \A k \in 1..Len(config.columns) :
            Has(config.columns[k], "name") /\ Has(config.columns[k], "type")
  ELSE Has(config, "query")

CallsOf(j) == {k \in 1..Len(calls) : calls[k].spec = j}

FailedAnswers == CatalogErrors \cup {"Raised"}

\* spec j is malformed, or the backend call made for it failed or raised
Faulted(j) ==
  \/ ~WellFormed(table_configs[j])
  \/ \E k \in CallsOf(j) : calls[k].resp \in FailedAnswers

RECURSIVE FaultedNames(_)
\* the names of the faulted specs among the first j, in the order of the list
FaultedNames(j) ==
  IF j = 0 THEN <<>>
  ELSE IF Faulted(j) THEN Append(FaultedNames(j - 1), table_configs[j].name)
  ELSE FaultedNames(j - 1)

Count(s, x) == Cardinality({k \in 1..Len(s) : s[k] = x})

\* ------------------------------------------------------------------ claims

\* C1: in a list in which every spec has a name, a fault in a spec never stops
\* the loop: every spec gone through was attempted (one backend call for each
\* well-formed spec), the name of each faulted spec is in failed_tables, and
\* the invocation ends with a report after the last spec of the list.
C1_Isolation ==
  (Started /\ AllNamed(configFile.tables)) =>
    /\ \A j \in 1..(idx - 1) :
         /\ WellFormed(table_configs[j]) => Cardinality(CallsOf(j)) = 1
         /\ Faulted(j) => table_configs[j].name \in Range(failed_tables)
    /\ pc = "done" => (response.statusCode = 200 /\ idx = Len(configFile.tables) + 1)

\* a malformed spec and a failed call, followed by a spec that was submitted
C1_Witness ==
  /\ response.statusCode = 200
  /\ Len(table_configs) = 3
  /\ ~WellFormed(table_configs[1])
  /\ \E k \in CallsOf(2) : calls[k].resp \in FailedAnswers
  /\ \E k \in CallsOf(3) : calls[k].resp \in {"Created", "Accepted"}

\* C2: a 500 response implies that no backend call was made, and whenever the
\* configuration is valid and the list was read the response is 200 with a
\* report whose total is the number of specs.
C2_FatalOnlyBeforeBatch ==
  /\ response.statusCode = 500 => calls = <<>>
  /\ (pc = "done" /\ Started) =>
       /\ response.statusCode = 200
       /\ response.details[1].total_tables = Len(configFile.tables)

\* C3: when a required variable is absent from the environment the invocation
\* ends with the fatal response, and neither the list is read nor a backend
\* called.
C3_AbsentVariableIsFatal ==
  (pc \in {"done", "import_error"} /\ ImportRaises(variant, env)) =>
    /\ response.statusCode = 500
    /\ table_configs = <<>>
    /\ calls = <<>>

\* C4: after each pass of the loop success_count + len(failed_tables) is the
\* number of specs gone through, and the returned report has
\* success_count + len(failed_tables) = total_tables = len(table_configs).
C4_Accounting ==
  /\ pc = "loop" => success_count + Len(failed_tables) = idx - 1
  /\ response.statusCode = 200 =>
       LET r == response.details[1] IN
       /\ r.success_count + Len(r.failed_tables) = r.total_tables
       /\ r.total_tables = Len(configFile.tables)

\* a report of three specs with successes and failures
C4_Witness ==
  /\ response.statusCode = 200
  /\ response.details[1].total_tables = 3
  /\ response.details[1].success_count = 2
  /\ Len(response.details[1].failed_tables) = 1

\* C6: failed_tables is the subsequence of the names of the list whose specs
\* faulted, in the order of the list, with repetitions.
C6_Stability ==
  /\ pc = "loop" => failed_tables = FaultedNames(idx - 1)
  /\ response.statusCode = 200 =>
       response.details[1].failed_tables = FaultedNames(Len(table_configs))

\* two failures in an order that is not the sorted one, around a success
C6_Witness ==
  /\ response.statusCode = 200
  /\ response.details[1].failed_tables = <<"t2", "t1">>
  /\ Faulted(1) /\ ~Faulted(2) /\ Faulted(3)

\* C7: (Athena variant) a spec with a name and a query is a success exactly
\* when its one start_query_execution call returned, and is in failed_tables
\* exactly when that call raised, whatever the state of the query in the engine.
C7_DispatchDecides ==
  variant = "athena" =>
    /\ \A j \in Processed :
         Has(table_configs[j], "query") => Cardinality(CallsOf(j)) = 1
    /\ (pc = "loop" \/ response.statusCode = 200) =>
         /\ success_count = Cardinality({k \in 1..Len(calls) : calls[k].resp = "Accepted"})
         /\ failed_tables = FaultedNames(idx - 1)

\* a report that counts as a success a query that failed in the engine
C7_Witness ==
  /\ variant = "athena"
  /\ response.statusCode = 200
  /\ \E k \in 1..Len(engine) : engine[k] = "FAILED"
  /\ response.details[1].success_count = Len(engine)
  /\ \E k \in 1..Len(calls) : calls[k].resp = "Raised"

\* C9: (Glue variant) a named spec is a success exactly when the catalog call
\* succeeded or failed with AlreadyExistsException; any other ClientError and
\* any other exception is a failure that does not leave the loop, and the name
\* is appended to failed_tables once for each such spec.
C9_Classification ==
  variant = "glue" =>
    /\ (pc = "loop" \/ response.statusCode = 200) =>
         /\ success_count =
              Cardinality({k \in 1..Len(calls) :
                             calls[k].resp \in {"Created", "AlreadyExistsException"}})
         /\ \A n \in TableNames :
              Count(failed_tables, n) =
                Cardinality({j \in Processed : table_configs[j].name = n /\ Faulted(j)})
    /\ (Started /\ response.statusCode = 500) => ~Has(table_configs[idx], "name")

\* every kind of answer of the catalog, and a spec that could not be built
C9_Witness ==
  /\ variant = "glue"
  /\ pc = "loop"
  /\ idx = 4
  /\ success_count = 1
  /\ \E k \in 1..Len(calls) : calls[k].resp = "AlreadyExistsException"
  /\ \E k \in 1..Len(calls) : calls[k].resp = "NoCode"
  /\ \E j \in Processed : ~WellFormed(table_configs[j])

\* C10: within one invocation the backend is called at most once for a list
\* entry, in the order of the list, and the call for an entry is made when
\* all the entries before it have been classified.
C10_OneCallInOrder ==
  \A k \in 1..Len(calls) :
    /\ calls[k].spec \in 1..Len(table_configs)
    /\ calls[k].classified = calls[k].spec - 1
    /\ k > 1 => calls[k - 1].spec < calls[k].spec

\* a failed call followed by the calls of the next two entries
C10_Witness ==
  /\ Len(calls) = 3
  /\ calls[1].resp \in FailedAnswers
  /\ calls[2].resp \in FailedAnswers
  /\ pc = "done"

\* the invocations that have returned, the current one last
RunsDone ==
  history \o (IF pc = "done" THEN <<[response |-> response, calls |-> calls]>> ELSE <<>>)

\* an invocation that returned a report in which every spec is a success
CleanRun(r) ==
  /\ r.response.statusCode = 200
  /\ r.response.details[1].failed_tables = <<>>
  /\ r.response.details[1].success_count = r.response.details[1].total_tables

\* C5: against a catalog that keeps its tables and answers a create of an
\* existing name with AlreadyExistsException, the same well-formed spec
\* submitted twice is created and then found to exist, a success both times;
\* an invocation that follows one in which every spec was a success returns,
\* without a fatal error, a report in which every spec is a success.
C5_Idempotent ==
  /\ \A r \in 1..Len(RunsDone) :
       /\ \A k1, k2 \in 1..Len(RunsDone[r].calls) :
            LET c1 == RunsDone[r].calls[k1]
                c2 == RunsDone[r].calls[k2]
            IN  (k1 < k2 /\ c1.request = c2.request /\ c1.resp = "Created")
                  => c2.resp = "AlreadyExistsException"
       /\ RunsDone[r].response.statusCode = 200 =>
            RunsDone[r].response.details[1].success_count =
              Cardinality({k \in 1..Len(RunsDone[r].calls) :
                 RunsDone[r].calls[k].resp \in {"Created", "AlreadyExistsException"}})
  /\ \A r \in 1..(Len(RunsDone) - 1) :
       CleanRun(RunsDone[r]) =>
         /\ CleanRun(RunsDone[r + 1])
         /\ Len(RunsDone[r + 1].calls) = Len(RunsDone[r].calls)
         /\ \A k \in 1..Len(RunsDone[r + 1].calls) :
              RunsDone[r + 1].calls[k].resp = "AlreadyExistsException"

\* a list that names the same new table twice, run twice
C5_Witness ==
  /\ Len(RunsDone) = 2
  /\ Len(RunsDone[1].calls) = 2
  /\ RunsDone[1].calls[1].resp = "Created"
  /\ RunsDone[1].calls[2].resp = "AlreadyExistsException"
  /\ RunsDone[1].calls[1].request = RunsDone[1].calls[2].request
  /\ CleanRun(RunsDone[1])
  /\ CleanRun(RunsDone[2])

\* the placeholder ${DATA_BUCKET} occurs in s at position p
BracedAt(s, p) ==
  /\ p + Len(PlaceholderKey) + 2 <= Len(s)
  /\ SubSeq(s, p, p + Len(PlaceholderKey) + 2) = <<"$", "{">> \o PlaceholderKey \o <<"}">>

\* the placeholder $DATA_BUCKET occurs in s at position p
NamedAt(s, p) ==
  /\ p + Len(PlaceholderKey) <= Len(s)
  /\ SubSeq(s, p, p + Len(PlaceholderKey)) = <<"$">> \o PlaceholderKey
  /\ (p + Len(PlaceholderKey) + 1 <= Len(s)) => s[p + Len(PlaceholderKey) + 1] \notin IdChars

RECURSIVE Replaced(_, _, _, _)
\* s from position p with every occurrence of the placeholder replaced by
\* value and every other character kept; with escapes, a pair $$ is one $
Replaced(s, p, value, escapes) ==
  IF p > Len(s) THEN <<>>
  ELSE IF escapes /\ p + 1 <= Len(s) /\ s[p] = "$" /\ s[p + 1] = "$"
    THEN <<"$">> \o Replaced(s, p + 2, value, escapes)
  ELSE IF BracedAt(s, p)
    THEN value \o Replaced(s, p + Len(PlaceholderKey) + 3, value, escapes)
  ELSE IF NamedAt(s, p)
    THEN value \o Replaced(s, p + Len(PlaceholderKey) + 1, value, escapes)
  ELSE <<s[p]>> \o Replaced(s, p + 1, value, escapes)

\* every spec gone through was submitted, with the statement Replaced gives
SubmittedIs(escapes) ==
  /\ \A j \in 1..(idx - 1) : pc \in {"loop", "done"} => Cardinality(CallsOf(j)) = 1
  /\ \A k \in 1..Len(calls) :
       calls[k].request.QueryString =
         Replaced(table_configs[calls[k].spec].query, 1, module.DATA_BUCKET, escapes)

\* C8 as stated: the statement submitted is spec.query with every occurrence of
\* the DATA_BUCKET placeholder replaced by the base location and every other
\* text unchanged, and no spec fails in the resolution.
C8_EveryOtherTextUnchanged == SubmittedIs(FALSE)

\* C8 as amended: the same, except that a pair $$ of the query is the escape of
\* the delimiter: it is submitted as one $, and the $ it yields starts no
\* placeholder.
C8_UnchangedButEscapes == SubmittedIs(TRUE)

\* a query in which an escape precedes the braces of a placeholder was
\* submitted, and one $ of the pair is gone
C8_Witness ==
  /\ Len(calls) = 1
  /\ table_configs[1].query = <<"$", "$", "{", "D", "}">>
  /\ calls[1].request.QueryString = <<"$", "{", "D", "}">>
  /\ response.statusCode = 200

====
